---- MODULE Spec2Model ----
(***************************************************************************)
(* Model of the anti-fraud service's FraudDetectionService                 *)
(* (services/anti-fraud-service/src/services/fraud_detection.py) and of    *)
(* the pydantic models it builds (models/fraud_models.py).                 *)
(*                                                                         *)
(* Scores are fixed-point: One (= 10000) stands for 1.0, so 0.075 is 750.  *)
(* Every score the model produces lies on a grid on which the products     *)
(* and quotients below are exact.                                          *)
(*                                                                         *)
(* An Optional[T] value is a sequence of length at most one: <<>> is None  *)
(* and <<v>> is the value v.  A raised exception is the record             *)
(* [err |-> <message>].                                                    *)
(***************************************************************************)
EXTENDS Integers, Sequences, FiniteSets

\* ------------------------------------------------------------------ bounds
\* Number of assess_transaction calls one behaviour issues.
MaxRequests == 2
\* Longest rule-result list given to the scoring functions in SpecFn.
MaxRules == 2

\* ------------------------------------------------------------ value helpers
One == 10 ^ 4

None == <<>>
Some(v) == <<v>>
IsNone(o) == o = <<>>
Get(o) == o[1]

Raise(msg) == [err |-> msg]
IsError(x) == "err" \in DOMAIN x

Max2(a, b) == IF a >= b THEN a ELSE b
Min2(a, b) == IF a <= b THEN a ELSE b
Abs(a) == IF a >= 0 THEN a ELSE 0 - a
MaxOf(S) == CHOOSE m \in S : \A x \in S : x <= m

\* np.clip(x, 0, 1)
Clip01(x) == IF x < 0 THEN 0 ELSE IF x > One THEN One ELSE x

\* x * y of two fixed-point numbers
Mul(x, y) == (x * y) \div One

RECURSIVE SumScores(_)
SumScores(rs) == IF rs = <<>> THEN 0 ELSE rs[1].score + SumScores(Tail(rs))

RECURSIVE SumTriggered(_)
SumTriggered(rs) ==
    IF rs = <<>> THEN 0
    ELSE (IF rs[1].triggered THEN rs[1].score ELSE 0) + SumTriggered(Tail(rs))

\* ------------------------------------------------- fraud_models.py (pydantic)
\* A pydantic model's constructor validates its keyword arguments: a field
\* declared without a default is required, and Field(gt=, ge=, le=) bounds
\* are enforced; a violation raises ValidationError.

\* Money: amount: float = Field(gt=0)
Money(amount) ==
    IF amount > 0 THEN [amount |-> amount, currency |-> "USD", precision |-> 2]
    ELSE Raise("ValidationError: Money.amount")

\* FraudRuleResult: rule_name, triggered, score (ge=0, le=1), details and
\* execution_time_ms, none of which has a default.
FraudRuleResultFields ==
    {"rule_name", "triggered", "score", "details", "execution_time_ms"}

FraudRuleResult(kw) ==
    IF ~(FraudRuleResultFields \subseteq DOMAIN kw)
      THEN Raise("ValidationError: FraudRuleResult field required")
    ELSE IF kw.score < 0 \/ kw.score > One
      THEN Raise("ValidationError: FraudRuleResult.score")
    ELSE kw


\* UserRiskProfile: total_amount and average_transaction_amount are Money,
\* so an invalid Money makes the profile's construction raise.
UserRiskProfile(kw) ==
    IF IsError(kw.total_amount) THEN kw.total_amount
    ELSE IF IsError(kw.average_transaction_amount) THEN kw.average_transaction_amount
    ELSE IF kw.base_score < 0 \/ kw.base_score > One
      THEN Raise("ValidationError: UserRiskProfile.base_score")
    ELSE kw

\* FraudAssessment: score (ge=0, le=1), confidence (ge=0, le=1),
\* ml_score Optional (ge=0, le=1); every required field is given by the caller.
FraudAssessment(kw) ==
    IF kw.score < 0 \/ kw.score > One
      THEN Raise("ValidationError: FraudAssessment.score")
    ELSE IF kw.confidence < 0 \/ kw.confidence > One
      THEN Raise("ValidationError: FraudAssessment.confidence")
    ELSE IF ~IsNone(kw.ml_score) /\ (Get(kw.ml_score) < 0 \/ Get(kw.ml_score) > One)
      THEN Raise("ValidationError: FraudAssessment.ml_score")
    ELSE kw

\* FraudDetectionResponse: assessment and error default to None.
FraudDetectionResponse(success, assessment, error, correlation_id) ==
    [success |-> success, assessment |-> assessment, error |-> error,
     correlation_id |-> correlation_id]

\* ------------------------------------------------ rule catalog and windows
\* _initialize_fraud_rules: the dict's insertion order is the registration order.
RuleKeys ==
    <<"velocity_check", "amount_anomaly", "geolocation_anomaly",
      "device_fingerprint", "time_pattern">>

\* A catalog whose velocity rule weighs 0.6.
fraud_rules_heavy ==
    [velocity_check |->
        [name |-> "VELOCITY_CHECK", weight |-> 6000, action |-> "HOLD", enabled |-> TRUE],
     amount_anomaly |->
        [name |-> "AMOUNT_ANOMALY", weight |-> 2500, action |-> "MANUAL_REVIEW", enabled |-> TRUE],
     geolocation_anomaly |->
        [name |-> "GEOLOCATION_ANOMALY", weight |-> 2000, action |-> "HOLD", enabled |-> TRUE],
     device_fingerprint |->
        [name |-> "DEVICE_FINGERPRINT", weight |-> 1500, action |-> "MANUAL_REVIEW", enabled |-> TRUE],
     time_pattern |->
        [name |-> "TIME_PATTERN", weight |-> 1000, action |-> "MANUAL_REVIEW", enabled |-> TRUE]]

fraud_rules ==
    [velocity_check |->
        [name |-> "VELOCITY_CHECK", weight |-> 3000, action |-> "HOLD", enabled |-> TRUE],
     amount_anomaly |->
        [name |-> "AMOUNT_ANOMALY", weight |-> 2500, action |-> "MANUAL_REVIEW", enabled |-> TRUE],
     geolocation_anomaly |->
        [name |-> "GEOLOCATION_ANOMALY", weight |-> 2000, action |-> "HOLD", enabled |-> TRUE],
     device_fingerprint |->
        [name |-> "DEVICE_FINGERPRINT", weight |-> 1500, action |-> "MANUAL_REVIEW", enabled |-> TRUE],
     time_pattern |->
        [name |-> "TIME_PATTERN", weight |-> 1000, action |-> "MANUAL_REVIEW", enabled |-> TRUE]]

\* self.velocity_checks (amounts in whole currency units)
Periods == {"hourly", "daily", "weekly"}

velocity_checks ==
    [hourly |-> [window_minutes |-> 60, max_transactions |-> 10, max_amount |-> None],
     daily |-> [window_minutes |-> 1440, max_transactions |-> 50,
                max_amount |-> Some(Money(10000))],
     weekly |-> [window_minutes |-> 10080, max_transactions |-> 200,
                 max_amount |-> Some(Money(50000))]]

\* ------------------------------------------------------- rule evaluators
\* Each evaluator gets the answers of its aggregator queries as arguments and
\* ends, as in the source, by constructing a FraudRuleResult from rule_name,
\* triggered, score and details only (execution_time_ms is assigned by the
\* caller after the evaluator has returned).  X_kwargs is the keyword
\* arguments evaluator X computes for that constructor.

\* _check_velocity_rules: count[p] and total[p] are the answers of
\* _get_transaction_count_in_window and _get_transaction_amount_in_window.
VelocityCountExceeded(count) ==
    {p \in Periods : count[p] > velocity_checks[p].max_transactions}

VelocityAmountExceeded(total) ==
    {p \in Periods : /\ ~IsNone(velocity_checks[p].max_amount)
                     /\ total[p] > Get(velocity_checks[p].max_amount).amount}

\* A velocity evaluator that reports the raw score, not the weighted one.
check_velocity_rules_kwargs_raw(count, total, rule_config) ==
    LET byCount == VelocityCountExceeded(count)
        byAmount == VelocityAmountExceeded(total)
        score == MaxOf({0} \cup {8000 : p \in byCount} \cup {9000 : p \in byAmount})
    IN [rule_name |-> rule_config.name,
        triggered |-> (byCount \cup byAmount) # {},
        score |-> score,
        details |-> [exceeded_count |-> byCount, exceeded_amount |-> byAmount]]

check_velocity_rules_kwargs(count, total, rule_config) ==
    LET byCount == VelocityCountExceeded(count)
        byAmount == VelocityAmountExceeded(total)
        score == MaxOf({0} \cup {8000 : p \in byCount} \cup {9000 : p \in byAmount})
    IN [rule_name |-> rule_config.name,
        triggered |-> (byCount \cup byAmount) # {},
        score |-> Mul(score, rule_config.weight),
        details |-> [exceeded_count |-> byCount, exceeded_amount |-> byAmount]]

check_velocity_rules(count, total, rule_config) ==
    FraudRuleResult(check_velocity_rules_kwargs(count, total, rule_config))

\* _check_amount_anomaly: z_score = |current - avg| / avg, so z_score > 3 is
\* |current - avg| > 3 * avg, and z_score / 5 is |current - avg| / (5 * avg).
check_amount_anomaly_kwargs(transaction, user_profile, rule_config) ==
    LET avg == user_profile.average_transaction_amount.amount
        current == transaction.amount.amount
        compared == user_profile.total_transactions > 0 /\ avg > 0
        triggered == compared /\ Abs(current - avg) > 3 * avg
        score == IF triggered
                 THEN Min2(8000, (Abs(current - avg) * One) \div (5 * avg))
                 ELSE 0
    IN [rule_name |-> rule_config.name,
        triggered |-> triggered,
        score |-> Mul(score, rule_config.weight),
        details |-> IF compared THEN [threshold |-> 3] ELSE <<>>]

check_amount_anomaly(transaction, user_profile, rule_config) ==
    FraudRuleResult(check_amount_anomaly_kwargs(transaction, user_profile, rule_config))

\* _check_geolocation_anomaly: typical_locations is the answer of
\* _get_user_typical_locations, each location given by its _calculate_distance
\* (km) to the transaction's geolocation.
check_geolocation_anomaly_kwargs(typical_locations, rule_config) ==
    LET min_distance ==
            CHOOSE d \in typical_locations : \A e \in typical_locations : d <= e
        triggered == typical_locations # {} /\ min_distance > 1000
        score == IF triggered THEN Min2(7000, (min_distance * One) \div 5000) ELSE 0
    IN [rule_name |-> rule_config.name,
        triggered |-> triggered,
        score |-> Mul(score, rule_config.weight),
        details |-> IF typical_locations # {}
                    THEN [threshold_km |-> 1000]
                    ELSE [status |-> "no_location_history"]]

check_geolocation_anomaly(typical_locations, rule_config) ==
    FraudRuleResult(check_geolocation_anomaly_kwargs(typical_locations, rule_config))

\* _get_user_known_devices, _is_device_blacklisted and
\* _get_user_typical_transaction_hours are stubs in the source.
get_user_known_devices(user_id) == {}
is_device_blacklisted(fingerprint) == FALSE
get_user_typical_transaction_hours(user_id) == <<>>

\* _check_device_fingerprint
check_device_fingerprint_kwargs(transaction, rule_config) ==
    LET known_devices == get_user_known_devices(transaction.user_id)
        fp == transaction.device_fingerprint
        new == fp \notin known_devices
        score == IF ~new THEN 0
                 ELSE IF is_device_blacklisted(fp) THEN One ELSE 5000
    IN [rule_name |-> rule_config.name,
        triggered |-> new,
        score |-> Mul(score, rule_config.weight),
        details |-> [is_known_device |-> ~new]]

check_device_fingerprint(transaction, rule_config) ==
    FraudRuleResult(check_device_fingerprint_kwargs(transaction, rule_config))

RECURSIVE SumValues(_, _)
SumValues(f, D) ==
    IF D = {} THEN 0
    ELSE LET k == CHOOSE x \in D : TRUE IN f[k] + SumValues(f, D \ {k})

\* _check_time_pattern: hour_probability < 0.05 is
\* 20 * hour_frequency < total_frequency.
check_time_pattern_kwargs(transaction, rule_config) ==
    LET typical_hours == get_user_typical_transaction_hours(transaction.user_id)
        hours == DOMAIN typical_hours
        hour_frequency == IF transaction.hour \in hours
                          THEN typical_hours[transaction.hour] ELSE 0
        total_frequency == SumValues(typical_hours, hours)
        triggered == /\ hours # {}
                     /\ total_frequency > 0
                     /\ 20 * hour_frequency < total_frequency
        score == IF triggered THEN 4000 ELSE 0
    IN [rule_name |-> rule_config.name,
        triggered |-> triggered,
        score |-> Mul(score, rule_config.weight),
        details |-> IF hours # {}
                    THEN [threshold |-> 500]
                    ELSE [status |-> "no_transaction_history"]]

check_time_pattern(transaction, rule_config) ==
    FraudRuleResult(check_time_pattern_kwargs(transaction, rule_config))

\* _execute_fraud_rules, the branch ladder on rule_name: agg holds the
\* aggregator answers for the evaluator of this rule.
Evaluate(rule_name, agg, transaction, user_profile) ==
    LET rule_config == fraud_rules[rule_name] IN
    CASE rule_name = "velocity_check" ->
           check_velocity_rules(agg.count, agg.total, rule_config)
      [] rule_name = "amount_anomaly" ->
           check_amount_anomaly(transaction, user_profile, rule_config)
      [] rule_name = "geolocation_anomaly" ->
           check_geolocation_anomaly(agg.typical_locations, rule_config)
      [] rule_name = "device_fingerprint" ->
           check_device_fingerprint(transaction, rule_config)
      [] rule_name = "time_pattern" ->
           check_time_pattern(transaction, rule_config)

\* An except branch that counts the failed rule at half its weight.
RuleErrorResult_scored(rule_name, e) ==
    FraudRuleResult(
      [rule_name |-> rule_name, triggered |-> TRUE,
       score |-> fraud_rules[rule_name].weight \div 2,
       details |-> [error |-> e.err], execution_time_ms |-> 0])

\* _execute_fraud_rules, the except branch: the result built for a rule whose
\* evaluator raised e.  Its rule_name is the catalog key, and the elapsed time
\* (abstracted to 0) is given.
RuleErrorResult(rule_name, e) ==
    FraudRuleResult(
      [rule_name |-> rule_name, triggered |-> FALSE, score |-> 0,
       details |-> [error |-> e.err], execution_time_ms |-> 0])

\* _execute_fraud_rules, one iteration of the loop for an enabled rule:
\* outcome is what the evaluator returned or raised.
RuleStep(rule_name, outcome) ==
    IF IsError(outcome) THEN RuleErrorResult(rule_name, outcome)
    ELSE [f \in DOMAIN outcome \cup {"execution_time_ms"} |->
            IF f = "execution_time_ms" THEN 0 ELSE outcome[f]]

\* ------------------------------------------------------------ user profile
\* _calculate_base_risk_score
AgeFactor(account_age_days) ==
    IF account_age_days < 7 THEN 3000
    ELSE IF account_age_days < 30 THEN 2000
    ELSE IF account_age_days < 90 THEN 1000
    ELSE 0

VerificationFactor(verification_level) ==
    CASE verification_level = "NONE" -> 3000
      [] verification_level = "BASIC" -> 1000
      [] verification_level = "ENHANCED" -> 0 - 1000
      [] verification_level = "PREMIUM" -> 0 - 2000
      [] OTHER -> 1000

HistoryFactor(total_transactions) ==
    IF total_transactions = 0 THEN 2000
    ELSE IF total_transactions < 10 THEN 1000
    ELSE IF total_transactions > 100 THEN 0 - 1000
    ELSE 0

calculate_base_risk_score(account_age_days, verification_level, total_transactions) ==
    Clip01(5000 + AgeFactor(account_age_days)
                + VerificationFactor(verification_level)
                + HistoryFactor(total_transactions))

\* _calculate_transaction_history_score
calculate_transaction_history_score(total_transactions) ==
    IF total_transactions = 0 THEN 8000
    ELSE IF total_transactions < 10 THEN 6000
    ELSE IF total_transactions < 50 THEN 3000
    ELSE 1000

\* _calculate_age_score
calculate_age_score(account_age_days) ==
    IF account_age_days < 7 THEN 9000
    ELSE IF account_age_days < 30 THEN 7000
    ELSE IF account_age_days < 90 THEN 4000
    ELSE IF account_age_days < 365 THEN 2000
    ELSE 1000

\* Level bands with exclusive lower bounds.
determine_risk_level_exclusive(score) ==
    IF score > 8000 THEN "CRITICAL"
    ELSE IF score > 6000 THEN "HIGH"
    ELSE IF score > 3000 THEN "MEDIUM"
    ELSE "LOW"

\* _determine_risk_level
determine_risk_level(score) ==
    IF score >= 8000 THEN "CRITICAL"
    ELSE IF score >= 6000 THEN "HIGH"
    ELSE IF score >= 3000 THEN "MEDIUM"
    ELSE "LOW"

\* _create_default_user_profile
create_default_user_profile(user_id) ==
    UserRiskProfile(
      [user_id |-> user_id,
       base_score |-> 7000,
       transaction_history_score |-> 0,
       age_score |-> 8000,
       verification_level |-> "NONE",
       total_transactions |-> 0,
       total_amount |-> Money(0),
       average_transaction_amount |-> Money(0),
       account_age_days |-> 0,
       failed_attempts_24h |-> 0,
       risk_level |-> "MEDIUM"])

\* _get_user_risk_profile, the profile computed from a row of the users table
ProfileFromRow(user_id, row) ==
    LET base_score == calculate_base_risk_score(
                        row.account_age_days, row.verification_level,
                        row.total_transactions)
    IN UserRiskProfile(
         [user_id |-> user_id,
          base_score |-> base_score,
          transaction_history_score |->
              calculate_transaction_history_score(row.total_transactions),
          age_score |-> calculate_age_score(row.account_age_days),
          verification_level |-> row.verification_level,
          total_transactions |-> row.total_transactions,
          total_amount |-> Money(row.total_amount),
          average_transaction_amount |-> Money(row.avg_amount),
          account_age_days |-> row.account_age_days,
          failed_attempts_24h |-> row.failed_attempts_24h,
          risk_level |-> determine_risk_level(base_score)])

\* ------------------------------------------------------------------ scoring
\* A fusion with the two weights exchanged (40% rules, 60% ML).
calculate_final_score_swapped(rule_results, ml_score) ==
    LET rule_score == SumScores(rule_results)
        final_score == IF ~IsNone(ml_score)
                       THEN (rule_score * 4 + Get(ml_score) * 6) \div 10
                       ELSE rule_score
    IN Clip01(final_score)

\* _calculate_final_score
calculate_final_score(rule_results, ml_score) ==
    LET rule_score == SumScores(rule_results)
        final_score == IF ~IsNone(ml_score)
                       THEN (rule_score * 6 + Get(ml_score) * 4) \div 10
                       ELSE rule_score
    IN Clip01(final_score)

\* _determine_action
HighWeightTriggered(rule_results) ==
    \E i \in DOMAIN rule_results :
        rule_results[i].triggered /\ rule_results[i].score > 5000

\* An action whose HOLD band starts at 0.5 instead of 0.6.
determine_action_hold_early(score, risk_level, rule_results) ==
    IF score >= 8000 THEN "REJECT"
    ELSE IF score >= 5000 THEN "HOLD"
    ELSE IF score >= 3000
      THEN (IF HighWeightTriggered(rule_results) THEN "MANUAL_REVIEW" ELSE "APPROVE")
    ELSE "APPROVE"

\* An action that never looks at the rules in the 0.3..0.6 band.
determine_action_no_review(score, risk_level, rule_results) ==
    IF score >= 8000 THEN "REJECT"
    ELSE IF score >= 6000 THEN "HOLD"
    ELSE "APPROVE"

determine_action(score, risk_level, rule_results) ==
    IF score >= 8000 THEN "REJECT"
    ELSE IF score >= 6000 THEN "HOLD"
    ELSE IF score >= 3000
      THEN (IF HighWeightTriggered(rule_results) THEN "MANUAL_REVIEW" ELSE "APPROVE")
    ELSE "APPROVE"

\* _calculate_confidence
calculate_confidence(rule_results, ml_score) ==
    LET rule_confidence == SumTriggered(rule_results)
        indicators ==
            (IF rule_confidence > 0 THEN <<rule_confidence>> ELSE <<>>)
            \o (IF ~IsNone(ml_score) THEN <<Get(ml_score)>> ELSE <<>>)
    IN IF rule_results = <<>> /\ IsNone(ml_score) THEN 0
       ELSE IF indicators = <<>> THEN 5000
       ELSE IF Len(indicators) = 1 THEN indicators[1]
       ELSE LET max_indicator == Max2(indicators[1], indicators[2])
                min_indicator == Min2(indicators[1], indicators[2])
                agreement == One - (max_indicator - min_indicator)
            IN Mul((indicators[1] + indicators[2]) \div 2, agreement)

\* _generate_assessment_reason: the names of the triggered rules, in order,
\* then whether an ML score is reported.
RECURSIVE TriggeredNames(_)
TriggeredNames(rs) ==
    IF rs = <<>> THEN <<>>
    ELSE (IF rs[1].triggered THEN <<rs[1].rule_name>> ELSE <<>>)
         \o TriggeredNames(Tail(rs))

generate_assessment_reason(rule_results, ml_score, final_score) ==
    [rules_triggered |-> TriggeredNames(rule_results),
     ml_reported |-> ~IsNone(ml_score),
     final_score |-> final_score]

\* assess_transaction, from the final score to the constructed assessment
RequiresManualReview(action) == action \in {"MANUAL_REVIEW"}

BuildAssessment(id, transaction, rule_results, ml_score) ==
    LET final_score == calculate_final_score(rule_results, ml_score)
        risk_level == determine_risk_level(final_score)
        action == determine_action(final_score, risk_level, rule_results)
    IN FraudAssessment(
         [id |-> id,
          user_id |-> transaction.user_id,
          transaction_id |-> transaction.id,
          score |-> final_score,
          risk_level |-> risk_level,
          rules |-> rule_results,
          ml_score |-> ml_score,
          action |-> action,
          reason |-> generate_assessment_reason(rule_results, ml_score, final_score),
          confidence |-> calculate_confidence(rule_results, ml_score),
          requires_manual_review |-> RequiresManualReview(action)])

\* An alert condition that also covers MEDIUM.
AlertNeeded_medium(risk_level) == risk_level \in {"MEDIUM", "HIGH", "CRITICAL"}

\* Whether assess_transaction sends an alert for this risk level
AlertNeeded(risk_level) == risk_level \in {"HIGH", "CRITICAL"}

\* ----------------------------------------------------------- model scorer
\* _create_fallback_model: a new IsolationForest and a new StandardScaler,
\* neither of them fitted, and the standard feature list.
FallbackModel == Some("IsolationForest")
FallbackScaler == Some("StandardScaler")
FallbackFeatures == Some("standard_features")

\* The artifacts joblib.load returns from ml_model_path.
ArtifactModel == Some("artifact_model")
ArtifactScaler == Some("artifact_scaler")
ArtifactFeatures == Some("artifact_features")

\* A load whose except branch keeps what was loaded before the failure.
load_ml_model_partial(loaded) ==
    [ml_model |-> IF loaded >= 1 THEN ArtifactModel ELSE FallbackModel,
     scaler |-> IF loaded >= 2 THEN ArtifactScaler ELSE FallbackScaler,
     feature_names |-> IF loaded >= 3 THEN ArtifactFeatures ELSE FallbackFeatures]

\* _load_ml_model: loaded is the number of joblib.load calls (model, scaler,
\* feature names, in that order) that succeed; one failure installs the
\* fallback triple.  The coroutine has no suspension point.
load_ml_model(loaded) ==
    IF loaded = 3
    THEN [ml_model |-> ArtifactModel, scaler |-> ArtifactScaler,
          feature_names |-> ArtifactFeatures]
    ELSE [ml_model |-> FallbackModel, scaler |-> FallbackScaler,
          feature_names |-> FallbackFeatures]

\* Fraud probabilities a fitted model may predict (before the clip).
MlValues == {7500}

\* What feature extraction, scaling and prediction may do inside the try block
\* of _calculate_ml_score: a scaler that was never fitted cannot transform;
\* a fitted pipeline either raises or yields a fraud probability.
PredictOutcomes(model, sc) ==
    IF sc = FallbackScaler
    THEN {Raise("NotFittedError")}
    ELSE {Raise("prediction failed")} \cup {[value |-> v] : v \in MlValues}

\* A scorer that reports 0.0 instead of None when it cannot predict.
calculate_ml_score_zero(model, outcome) ==
    IF IsNone(model) THEN Some(0)
    ELSE IF IsError(outcome) THEN Some(0)
    ELSE Some(Clip01(outcome.value))

\* _calculate_ml_score
calculate_ml_score(model, outcome) ==
    IF IsNone(model) THEN None
    ELSE IF IsError(outcome) THEN None
    ELSE Some(Clip01(outcome.value))

\* ------------------------------------------------------------------- state
VARIABLES
    ml_model, scaler, feature_names, \* the service's model artifacts
    cache,                \* redis: user_id -> Optional serialized profile
                          \*   (the key is "user_risk_profile:{user_id}")
    fraud_assessments,    \* the fraud_assessments table: a set of assessments
    alerts,               \* ids of the assessments an alert was sent for
    issued,               \* number of assess_transaction calls made so far
    pc,                   \* per task: where its assess_transaction call stands
    request,              \* per task: the FraudDetectionRequest
    user_profile,         \* per task: Optional profile in use
    rule_results,         \* per task: results collected so far
    ml_score,             \* per task: Optional ML score
    assessment,           \* per task: Optional assessment built
    response,             \* per task: Optional FraudDetectionResponse returned
    effects,              \* per task: external calls the request has made
    fn_args, fn_result    \* arguments and result of the scoring functions

service_vars == <<ml_model, scaler, feature_names>>
store_vars == <<cache, fraud_assessments, alerts>>
task_vars == <<pc, request, user_profile, rule_results, ml_score,
               assessment, response, effects>>
fn_vars == <<fn_args, fn_result>>
vars == <<service_vars, store_vars, issued, task_vars, fn_vars>>

\* Concurrent assess_transaction calls (asyncio tasks).
Tasks == {"t1", "t2"}

\* ------------------------------------------------------------- environment
Users == {"alice", "bob", "carol"}

\* The users table joined with user_transaction_stats (COALESCE(..., 0)):
\* alice is established, bob is registered without transactions, carol has
\* no row.
users_table ==
    [alice |-> Some([account_age_days |-> 400, verification_level |-> "ENHANCED",
                     total_transactions |-> 120, total_amount |-> 6000,
                     avg_amount |-> 50, failed_attempts_24h |-> 0]),
     bob |-> Some([account_age_days |-> 3, verification_level |-> "NONE",
                   total_transactions |-> 0, total_amount |-> 0,
                   avg_amount |-> 0, failed_attempts_24h |-> 0]),
     carol |-> None]

\* The amount of the payment each user asks for.
Amount == [alice |-> 2000, bob |-> 10, carol |-> 10]

\* A Transaction; its id is the number of the call that carries it.
Transaction(id, user_id, amount) ==
    [id |-> id, user_id |-> user_id, amount |-> Money(amount), hour |-> 3,
     device_fingerprint |-> "fp1"]

\* The FraudDetectionRequests call number id may carry.
Requests(id) ==
    {[user_id |-> "alice", transaction |-> None]}
    \cup {[user_id |-> u, transaction |-> Some(Transaction(id, u, Amount[u]))] :
            u \in Users}

\* Answers the aggregator queries of one call may give: the count and the
\* total amount in each velocity window, and the typical locations.
AggAnswers ==
    {[count |-> [p \in Periods |-> c], total |-> [p \in Periods |-> a],
      typical_locations |-> l] :
        c \in {5, 250}, a \in {0, 60000}, l \in {{}, {500}, {2000, 8000}}}

\* Rules whose evaluator queries the database, so that the query may raise.
QueryingRules == {"velocity_check", "geolocation_anomaly"}

\* During one call the transactions table answers every aggregator query,
\* fails every one of them, or never answers (the awaits carry no timeout).
QueryChoices == {[r \in QueryingRules |-> o] : o \in {"ok", "raise", "hang"}}

\* profile.json() and UserRiskProfile.parse_raw: the cached value is the JSON
\* text of the profile; parsing validates the fields again.
profile_json(profile) == <<"json", profile>>
parse_raw(text) == UserRiskProfile(text[2])

\* ------------------------------------------------------------------- Init
TaskInit ==
    /\ pc = [t \in Tasks |-> "idle"]
    /\ request = [t \in Tasks |-> None]
    /\ user_profile = [t \in Tasks |-> None]
    /\ rule_results = [t \in Tasks |-> <<>>]
    /\ ml_score = [t \in Tasks |-> None]
    /\ assessment = [t \in Tasks |-> None]
    /\ response = [t \in Tasks |-> None]
    /\ effects = [t \in Tasks |-> {}]

\* __init__: no model yet (the load is a task still to run), nothing cached,
\* stored or sent.
ServiceInit ==
    /\ ml_model = None /\ scaler = None /\ feature_names = <<>>
    /\ cache = [u \in Users |-> None]
    /\ fraud_assessments = {}
    /\ alerts = {}
    /\ issued = 0
    /\ TaskInit

Init ==
    /\ ServiceInit
    /\ fn_args = None
    /\ fn_result = None

\* ---------------------------------------------------- assess_transaction
\* An external call (database, redis, alert sink) returns or raises.
CallOutcomes == {"ok", "raise"}

\* correlation_id = f"fraud_{int(time.time())}"
CorrelationId == "fraud_<unix seconds>"

\* "if not request.transaction"
HasTransaction(req) == ~IsNone(req.transaction)

\* An early return that reports the missing transaction as a success.
NoTransactionResponse_success ==
    FraudDetectionResponse(TRUE, None, None, CorrelationId)

\* The early return for a request without a transaction.
NoTransactionResponse ==
    FraudDetectionResponse(FALSE, None, Some("No transaction provided"), CorrelationId)

\* The except branch of assess_transaction: the response for exception e.
ExceptResponse(e) ==
    FraudDetectionResponse(FALSE, None, Some(e.err), CorrelationId)

\* The final return of assess_transaction.
SuccessResponse(a) ==
    FraudDetectionResponse(TRUE, Some(a), None, CorrelationId)

TransactionOf(t) == Get(Get(request[t]).transaction)

Returns(t, resp) ==
    /\ response' = [response EXCEPT ![t] = Some(resp)]
    /\ pc' = [pc EXCEPT ![t] = "done"]

Did(t, calls) == effects' = [effects EXCEPT ![t] = @ \cup calls]

\* A call arrives: validation, then _get_user_risk_profile up to its first
\* suspension point (redis.get is a synchronous call).
Assess(t) ==
    /\ pc[t] = "idle"
    /\ issued < MaxRequests
    /\ \E req \in Requests(issued + 1), got \in CallOutcomes :
         LET u == Get(req.transaction).user_id IN
         /\ issued' = issued + 1
         /\ request' = [request EXCEPT ![t] = Some(req)]
         /\ IF ~HasTransaction(req)
            THEN /\ got = "ok"
                 /\ Returns(t, NoTransactionResponse)
                 /\ UNCHANGED <<user_profile, effects>>
            ELSE /\ Did(t, {"cache_get"})
                 /\ IF got = "raise"
                    THEN /\ Returns(t, ExceptResponse(Raise("redis get failed")))
                         /\ UNCHANGED user_profile
                    ELSE IF ~IsNone(cache[u])
                    THEN /\ user_profile' =
                              [user_profile EXCEPT ![t] = Some(parse_raw(Get(cache[u])))]
                         /\ pc' = [pc EXCEPT ![t] = "rules"]
                         /\ UNCHANGED response
                    ELSE /\ pc' = [pc EXCEPT ![t] = "fetchrow"]
                         /\ UNCHANGED <<user_profile, response>>
    /\ UNCHANGED <<service_vars, store_vars, rule_results, ml_score,
                   assessment, fn_vars>>

\* _get_user_risk_profile after the cache miss: the query, the profile (the
\* default one when there is no row, returned without caching), then setex.
FetchRow(t) ==
    /\ pc[t] = "fetchrow"
    /\ \E fetched \in CallOutcomes, set \in CallOutcomes :
         LET u == TransactionOf(t).user_id
             row == users_table[u]
             profile == IF IsNone(row) THEN create_default_user_profile(u)
                        ELSE ProfileFromRow(u, Get(row))
         IN
         IF fetched = "raise"
         THEN /\ set = "ok"
              /\ Did(t, {"db_fetchrow"})
              /\ Returns(t, ExceptResponse(Raise("database query failed")))
              /\ UNCHANGED <<user_profile, cache>>
         ELSE IF IsError(profile)
         THEN /\ set = "ok"
              /\ Did(t, {"db_fetchrow"})
              /\ Returns(t, ExceptResponse(profile))
              /\ UNCHANGED <<user_profile, cache>>
         ELSE IF IsNone(row)
         THEN /\ set = "ok"
              /\ Did(t, {"db_fetchrow"})
              /\ user_profile' = [user_profile EXCEPT ![t] = Some(profile)]
              /\ pc' = [pc EXCEPT ![t] = "rules"]
              /\ UNCHANGED <<response, cache>>
         ELSE IF set = "raise"
         THEN /\ Did(t, {"db_fetchrow", "cache_setex"})
              /\ Returns(t, ExceptResponse(Raise("redis setex failed")))
              /\ UNCHANGED <<user_profile, cache>>
         ELSE /\ Did(t, {"db_fetchrow", "cache_setex"})
              /\ cache' = [cache EXCEPT ![u] = Some(profile_json(profile))]
              /\ user_profile' = [user_profile EXCEPT ![t] = Some(profile)]
              /\ pc' = [pc EXCEPT ![t] = "rules"]
              /\ UNCHANGED response
    /\ UNCHANGED <<service_vars, fraud_assessments, alerts, issued, request,
                   rule_results, ml_score, assessment, fn_vars>>

\* _execute_fraud_rules: the loop over the catalog, from position i on.
\* agg holds the answers of the aggregator queries and queried[r] tells
\* whether the queries of rule r return or raise.
RECURSIVE ExecuteFrom(_, _, _, _, _)
ExecuteFrom(i, transaction, profile, agg, queried) ==
    IF i > Len(RuleKeys) THEN <<>>
    ELSE LET rule_name == RuleKeys[i]
             outcome == IF rule_name \in QueryingRules /\ queried[rule_name] = "raise"
                        THEN Raise("aggregator query failed")
                        ELSE Evaluate(rule_name, agg, transaction, profile)
         IN (IF ~fraud_rules[rule_name].enabled THEN <<>>
             ELSE <<RuleStep(rule_name, outcome)>>)
            \o ExecuteFrom(i + 1, transaction, profile, agg, queried)

execute_fraud_rules(transaction, profile, agg, queried) ==
    ExecuteFrom(1, transaction, profile, agg, queried)

ExecuteFraudRules(t) ==
    /\ pc[t] = "rules"
    /\ \E agg \in AggAnswers, queried \in QueryChoices :
         IF \E q \in QueryingRules : queried[q] = "hang"
         THEN /\ pc' = [pc EXCEPT ![t] = "awaiting_query"]
              /\ Did(t, {"rules"})
              /\ UNCHANGED rule_results
         ELSE /\ rule_results' = [rule_results EXCEPT ![t] =
                   execute_fraud_rules(TransactionOf(t), Get(user_profile[t]), agg, queried)]
              /\ Did(t, {"rules"} \cup {"aggregator_raised" : r \in
                                          {q \in QueryingRules : queried[q] = "raise"}})
              /\ pc' = [pc EXCEPT ![t] = "score"]
    /\ UNCHANGED <<service_vars, store_vars, issued, request, user_profile,
                   ml_score, assessment, response, fn_vars>>

\* What happened inside _calculate_ml_score, for the record of the call.
ModelEvents(model, sc, outcome) ==
    IF IsNone(model) THEN {"model_missing"}
    ELSE IF ~IsError(outcome) THEN {}
    ELSE IF sc = FallbackScaler THEN {"model_unfitted", "prediction_raised"}
    ELSE {"prediction_raised"}

\* _calculate_ml_score, then the final score, level, action and the
\* construction of the FraudAssessment (no suspension point in between).
ScoreModel(t) ==
    /\ pc[t] = "score"
    /\ \E outcome \in (IF IsNone(ml_model) THEN {Raise("no model")}
                       ELSE PredictOutcomes(ml_model, scaler)) :
         LET score == calculate_ml_score(ml_model, outcome)
             built == BuildAssessment(TransactionOf(t).id, TransactionOf(t),
                                      rule_results[t], score)
         IN
         /\ ml_score' = [ml_score EXCEPT ![t] = score]
         /\ Did(t, {"model"} \cup ModelEvents(ml_model, scaler, outcome))
         /\ IF IsError(built)
            THEN /\ Returns(t, ExceptResponse(built))
                 /\ UNCHANGED assessment
            ELSE /\ assessment' = [assessment EXCEPT ![t] = Some(built)]
                 /\ pc' = [pc EXCEPT ![t] = "store"]
                 /\ UNCHANGED response
    /\ UNCHANGED <<service_vars, store_vars, issued, request, user_profile,
                   rule_results, fn_vars>>

\* A call that goes from the INSERT straight to the alert test, without
\* _update_user_risk_profile.
StoreAssessment_no_invalidate(t) ==
    /\ pc[t] = "store"
    /\ Did(t, {"db_insert", "cache_delete"})
    /\ \E inserted \in CallOutcomes :
         IF inserted = "raise"
         THEN /\ Returns(t, ExceptResponse(Raise("database insert failed")))
              /\ UNCHANGED fraud_assessments
         ELSE /\ fraud_assessments' = fraud_assessments \cup {Get(assessment[t])}
              /\ pc' = [pc EXCEPT ![t] = "alert"]
              /\ UNCHANGED response
    /\ UNCHANGED <<service_vars, cache, alerts, issued, request, user_profile,
                   rule_results, ml_score, assessment, fn_vars>>

\* _store_assessment: the INSERT
StoreAssessment(t) ==
    /\ pc[t] = "store"
    /\ Did(t, {"db_insert"})
    /\ \E inserted \in CallOutcomes :
         IF inserted = "raise"
         THEN /\ Returns(t, ExceptResponse(Raise("database insert failed")))
              /\ UNCHANGED fraud_assessments
         ELSE /\ fraud_assessments' = fraud_assessments \cup {Get(assessment[t])}
              /\ pc' = [pc EXCEPT ![t] = "invalidate"]
              /\ UNCHANGED response
    /\ UNCHANGED <<service_vars, cache, alerts, issued, request, user_profile,
                   rule_results, ml_score, assessment, fn_vars>>

\* An _update_user_risk_profile that leaves the cached profile in place.
UpdateUserRiskProfile_keep(t) ==
    /\ pc[t] = "invalidate"
    /\ Did(t, {"cache_delete"})
    /\ pc' = [pc EXCEPT ![t] = "alert"]
    /\ UNCHANGED <<service_vars, store_vars, issued, request, user_profile,
                   rule_results, ml_score, assessment, response, fn_vars>>

\* _update_user_risk_profile: redis.delete of the user's key
UpdateUserRiskProfile(t) ==
    /\ pc[t] = "invalidate"
    /\ Did(t, {"cache_delete"})
    /\ \E deleted \in CallOutcomes :
         IF deleted = "raise"
         THEN /\ Returns(t, ExceptResponse(Raise("redis delete failed")))
              /\ UNCHANGED cache
         ELSE /\ cache' = [cache EXCEPT ![TransactionOf(t).user_id] = None]
              /\ pc' = [pc EXCEPT ![t] = "alert"]
              /\ UNCHANGED response
    /\ UNCHANGED <<service_vars, fraud_assessments, alerts, issued, request,
                   user_profile, rule_results, ml_score, assessment,
                   fn_vars>>

\* "if risk_level in [HIGH, CRITICAL]: await self._send_fraud_alert(assessment)",
\* then the successful return.
SendAlertAndReturn(t) ==
    /\ pc[t] = "alert"
    /\ \E sent \in CallOutcomes :
         LET a == Get(assessment[t]) IN
         IF ~AlertNeeded(a.risk_level)
         THEN /\ sent = "ok"
              /\ Returns(t, SuccessResponse(a))
              /\ UNCHANGED <<alerts, effects>>
         ELSE /\ Did(t, {"alert"})
              /\ IF sent = "raise"
                 THEN /\ Returns(t, ExceptResponse(Raise("alert sink failed")))
                      /\ UNCHANGED alerts
                 ELSE /\ alerts' = alerts \cup {a.id}
                      /\ Returns(t, SuccessResponse(a))
    /\ UNCHANGED <<service_vars, cache, fraud_assessments, issued, request,
                   user_profile, rule_results, ml_score, assessment,
                   fn_vars>>

\* The caller has taken the response; the task slot is free again.
Return(t) ==
    /\ pc[t] = "done"
    /\ pc' = [pc EXCEPT ![t] = "idle"]
    /\ request' = [request EXCEPT ![t] = None]
    /\ user_profile' = [user_profile EXCEPT ![t] = None]
    /\ rule_results' = [rule_results EXCEPT ![t] = <<>>]
    /\ ml_score' = [ml_score EXCEPT ![t] = None]
    /\ assessment' = [assessment EXCEPT ![t] = None]
    /\ response' = [response EXCEPT ![t] = None]
    /\ effects' = [effects EXCEPT ![t] = {}]
    /\ UNCHANGED <<service_vars, store_vars, issued, fn_vars>>

\* The task __init__ created with asyncio.create_task(self._load_ml_model())
LoadModel ==
    /\ IsNone(ml_model)
    /\ \E loaded \in 0..3 :
         LET triple == load_ml_model(loaded) IN
         /\ ml_model' = triple.ml_model
         /\ scaler' = triple.scaler
         /\ feature_names' = triple.feature_names
    /\ UNCHANGED <<store_vars, issued, task_vars, fn_vars>>

\* A cached profile reaches its TTL of 300 s.
CacheExpire(u) ==
    /\ ~IsNone(cache[u])
    /\ cache' = [cache EXCEPT ![u] = None]
    /\ UNCHANGED <<service_vars, fraud_assessments, alerts, issued, task_vars, fn_vars>>

Next ==
    \/ \E t \in Tasks : Assess(t)
    \/ \E t \in Tasks : FetchRow(t)
    \/ \E t \in Tasks : ExecuteFraudRules(t)
    \/ \E t \in Tasks : ScoreModel(t)
    \/ \E t \in Tasks : StoreAssessment(t)
    \/ \E t \in Tasks : UpdateUserRiskProfile(t)
    \/ \E t \in Tasks : SendAlertAndReturn(t)
    \/ \E t \in Tasks : Return(t)
    \/ LoadModel
    \/ \E u \in Users : CacheExpire(u)

Spec == Init /\ [][Next]_vars

\* The event loop runs every task that can take a step, and every external
\* call that answers does so eventually.
Fairness ==
    \A t \in Tasks :
      /\ WF_vars(FetchRow(t))
      /\ WF_vars(ExecuteFraudRules(t))
      /\ WF_vars(ScoreModel(t))
      /\ WF_vars(StoreAssessment(t))
      /\ WF_vars(UpdateUserRiskProfile(t))
      /\ WF_vars(SendAlertAndReturn(t))

SpecFair == Spec /\ Fairness

\* Calls made one after the other by a single caller, and no expiry of a
\* cached profile in between.
Caller == "t1"

NextSeq ==
    \/ Assess(Caller)
    \/ FetchRow(Caller)
    \/ ExecuteFraudRules(Caller)
    \/ ScoreModel(Caller)
    \/ StoreAssessment(Caller)
    \/ UpdateUserRiskProfile(Caller)
    \/ SendAlertAndReturn(Caller)
    \/ Return(Caller)
    \/ LoadModel

SpecSeq == Init /\ [][NextSeq]_vars

\* ------------------------------------------- the scoring functions alone
\* The scoring functions of assess_transaction (_calculate_final_score,
\* _determine_risk_level, _determine_action, _calculate_confidence and the
\* construction of the FraudAssessment) applied to every list of valid rule
\* results of at most MaxRules entries and every ML score of a grid.
FnScores == {0, 3000, 5500, 8000}
FnMlScores == {None, Some(0), Some(5000), Some(One)}

FnRuleResult(i, score, triggered) ==
    FraudRuleResult(
      [rule_name |-> fraud_rules[RuleKeys[i]].name, triggered |-> triggered,
       score |-> score, details |-> <<>>, execution_time_ms |-> 0])

FnRuleResultLists ==
    UNION {{[i \in 1..k |-> FnRuleResult(i, f[i][1], f[i][2])] :
              f \in [1..k -> FnScores \X BOOLEAN]} : k \in 0..MaxRules}

FnTransaction == Transaction(0, "alice", Amount["alice"])

InitFn ==
    /\ ServiceInit
    /\ fn_args \in {Some([rule_results |-> rs, ml_score |-> ml]) :
                      rs \in FnRuleResultLists, ml \in FnMlScores}
    /\ fn_result = None

ApplyScoring ==
    /\ IsNone(fn_result)
    /\ LET a == Get(fn_args) IN
       fn_result' = Some(
         [final_score |-> calculate_final_score(a.rule_results, a.ml_score),
          assessment |-> BuildAssessment(0, FnTransaction, a.rule_results, a.ml_score)])
    /\ UNCHANGED <<service_vars, store_vars, issued, task_vars, fn_args>>

NextFn == ApplyScoring

SpecFn == InitFn /\ [][NextFn]_vars

\* ----------------------------------------------------- the rule engine alone
\* _execute_fraud_rules applied to an established user's transaction for
\* every answer of the aggregator queries, then the assessment built from its
\* results with each ML score of the grid.
FnAggAnswers ==
    {[count |-> [p \in Periods |-> c], total |-> [p \in Periods |-> a],
      typical_locations |-> l] :
        c \in {5, 250}, a \in {0, 60000}, l \in {{}, {500}, {2000, 8000}, {8000}}}

FnQueryChoices == {[r \in QueryingRules |-> o] : o \in {"ok", "raise"}}

FnAmounts == {10, 2000}

InitRules ==
    /\ ServiceInit
    /\ fn_args \in {Some([transaction |-> Transaction(0, "alice", amt),
                          user_profile |-> ProfileFromRow("alice", Get(users_table["alice"])),
                          agg |-> agg, queried |-> q, ml_score |-> ml]) :
                      amt \in FnAmounts, agg \in FnAggAnswers,
                      q \in FnQueryChoices, ml \in FnMlScores}
    /\ fn_result = None

ApplyRules ==
    /\ IsNone(fn_result)
    /\ LET a == Get(fn_args)
           results == execute_fraud_rules(a.transaction, a.user_profile, a.agg, a.queried)
       IN fn_result' = Some(
            [rule_results |-> results,
             assessment |-> BuildAssessment(0, a.transaction, results, a.ml_score)])
    /\ UNCHANGED <<service_vars, store_vars, issued, task_vars, fn_args>>

NextRules == ApplyRules

SpecRules == InitRules /\ [][NextRules]_vars

\* ================================================================== claims
FnArgs == Get(fn_args)
FnDone == ~IsNone(fn_result)
FnProduced == FnDone /\ ~IsError(Get(fn_result).assessment)
FnAssessment == Get(fn_result).assessment

\* C1: for every list of rule results and every ml_score, ten times the fused
\* score is 6 * rule_sum + 4 * ml_score when ml_score is defined and
\* 10 * rule_sum when it is not, cut to [0, 10]; the score of every assessment
\* that is produced is that fused score and lies in [0, 1].
C1_FusedScoreClipped ==
    FnDone =>
      LET rule_sum == SumScores(FnArgs.rule_results)
          ml == FnArgs.ml_score
          tenfold == IF IsNone(ml) THEN 10 * rule_sum ELSE 6 * rule_sum + 4 * Get(ml)
          final == Get(fn_result).final_score
      IN /\ tenfold < 0 => final = 0
         /\ tenfold > 10 * One => final = One
         /\ (0 <= tenfold /\ tenfold <= 10 * One) => 10 * final = tenfold
         /\ FnProduced => (FnAssessment.score = final /\ final \in 0..One)

\* C1 witness: an assessment was produced from two rule results and a defined
\* ml_score whose weighted sum is strictly inside (0, 1).
C1_Witness ==
    /\ FnProduced
    /\ Len(FnArgs.rule_results) = 2
    /\ FnArgs.ml_score = Some(5000)
    /\ SumScores(FnArgs.rule_results) = 8500
    /\ FnAssessment.score = 7100

\* C2: in every assessment produced, risk_level is the level whose half-open
\* band contains the score: LOW below 0.3, MEDIUM in [0.3, 0.6), HIGH in
\* [0.6, 0.8), CRITICAL from 0.8.
C2_LevelIsBandOfScore ==
    FnProduced =>
      LET sc == FnAssessment.score
          level == FnAssessment.risk_level
      IN /\ level = "LOW" <=> sc < 3000
         /\ level = "MEDIUM" <=> (3000 <= sc /\ sc < 6000)
         /\ level = "HIGH" <=> (6000 <= sc /\ sc < 8000)
         /\ level = "CRITICAL" <=> sc >= 8000

\* C2 witness: an assessment whose score is exactly the lower bound of HIGH.
C2_Witness ==
    /\ FnProduced
    /\ FnAssessment.score = 6000
    /\ FnAssessment.risk_level = "HIGH"

\* C3: in every assessment produced, REJECT implies score >= 0.8, HOLD implies
\* 0.6 <= score < 0.8, APPROVE implies score < 0.3 or (0.3 <= score < 0.6 and
\* no triggered rule has a weighted score above 0.5), and
\* requires_manual_review is true exactly when the action is MANUAL_REVIEW.
C3_ActionFollowsScore ==
    FnProduced =>
      LET sc == FnAssessment.score
          action == FnAssessment.action
          rules == FnAssessment.rules
          high == \E i \in 1..Len(rules) : rules[i].triggered /\ rules[i].score > 5000
      IN /\ action = "REJECT" => sc >= 8000
         /\ action = "HOLD" => (6000 <= sc /\ sc < 8000)
         /\ action = "APPROVE" => (sc < 3000 \/ (3000 <= sc /\ sc < 6000 /\ ~high))
         /\ FnAssessment.requires_manual_review <=> action = "MANUAL_REVIEW"

\* C3 witness: an assessment in the 0.3..0.6 band with a triggered rule above
\* 0.5, sent to manual review.
C3_Witness ==
    /\ FnProduced
    /\ FnAssessment.action = "MANUAL_REVIEW"
    /\ FnAssessment.requires_manual_review
    /\ FnAssessment.score = 5300

\* ----------------------------------------------------- claims on the calls
Finished(t) == pc[t] = "done"
Req(t) == Get(request[t])
Resp(t) == Get(response[t])
Stored(id) == \E a \in fraud_assessments : a.id = id

\* Errors of the external collaborators (redis, database, alert sink).
ExternalErrors ==
    {Some("redis get failed"), Some("database query failed"),
     Some("redis setex failed"), Some("database insert failed"),
     Some("redis delete failed"), Some("alert sink failed")}

\* C4: a call with a transaction that ends with success = false has error
\* set, carries no assessment, and has left no assessment of its own in the
\* fraud_assessments table.
C4_FailureLeavesNothing ==
    \A t \in Tasks :
      (Finished(t) /\ HasTransaction(Req(t)) /\ ~Resp(t).success) =>
        /\ ~IsNone(Resp(t).error)
        /\ IsNone(Resp(t).assessment)
        /\ ~Stored(TransactionOf(t).id)

EnabledRules == {i \in 1..Len(RuleKeys) : fraud_rules[RuleKeys[i]].enabled}

ModelFailed(t) ==
    effects[t] \cap {"model_missing", "model_unfitted", "prediction_raised"} # {}

C8_NoTransactionNoEffects ==
    \A t \in Tasks :
      (~IsNone(request[t]) /\ IsNone(Req(t).transaction)) =>
        /\ Finished(t)
        /\ Resp(t).success = FALSE
        /\ Resp(t).error = Some("No transaction provided")
        /\ Resp(t).correlation_id = CorrelationId
        /\ IsNone(Resp(t).assessment)
        /\ effects[t] = {}
        /\ IsNone(user_profile[t]) /\ IsNone(assessment[t])

\* C8 witness: a call without a transaction has returned while another call
\* is in progress.
C8_Witness ==
    \E t \in Tasks :
      /\ Finished(t)
      /\ IsNone(Req(t).transaction)
      /\ \E o \in Tasks \ {t} : pc[o] = "store"

\* C9: for a user without a row, unless an external collaborator fails, the
\* call uses the default profile (base_score 0.7, age_score 0.8,
\* transaction_history_score 0, NONE, zero amounts, MEDIUM) and returns a
\* successful assessment with score 0.075, level LOW and action APPROVE.
C9_UnknownUserIsAssessed ==
    \A t \in Tasks :
      (/\ Finished(t)
       /\ HasTransaction(Req(t))
       /\ IsNone(users_table[TransactionOf(t).user_id])
       /\ IsNone(cache[TransactionOf(t).user_id])
       /\ Resp(t).error \notin ExternalErrors) =>
        /\ Resp(t).success
        /\ ~IsNone(user_profile[t])
        /\ Get(user_profile[t]).base_score = 7000
        /\ Get(user_profile[t]).age_score = 8000
        /\ Get(user_profile[t]).risk_level = "MEDIUM"
        /\ Get(Resp(t).assessment).score = 750
        /\ Get(Resp(t).assessment).risk_level = "LOW"
        /\ Get(Resp(t).assessment).action = "APPROVE"

\* C11: a call that has persisted its assessment deletes its user's cache key
\* next, before it returns: the delete leaves no entry for the user, every
\* successful return has done the INSERT and the delete, and an entry for a
\* user appears again only through a call for that user that re-reads the
\* users table.
UserOf(t) == TransactionOf(t).user_id

C12_DeadlineEndsCall ==
    \A t \in Tasks : (pc[t] = "rules") ~> (pc[t] = "done")

\* C13: with no ML score and every rule's inputs at their extreme (all
\* velocity windows exceeded in count and amount, an amount far above the
\* user's average, the nearest typical location 8000 km away, a new device,
\* an unusual hour), the weighted rule scores are 0.30, 0.20, 0.14, 0.15 and
\* 0.04, the score is 0.83, the level CRITICAL, the action REJECT (so an alert
\* is due) and requires_manual_review is false.
MaxRuleInputs ==
    /\ ~IsNone(fn_args)
    /\ FnArgs.transaction.amount.amount = 2000
    /\ \A p \in Periods : FnArgs.agg.count[p] = 250 /\ FnArgs.agg.total[p] = 60000
    /\ FnArgs.agg.typical_locations = {8000}
    /\ \A r \in QueryingRules : FnArgs.queried[r] = "ok"
    /\ IsNone(FnArgs.ml_score)

C13_MaxRulesGiveCritical ==
    (MaxRuleInputs /\ FnDone) =>
      LET results == Get(fn_result).rule_results
          a == Get(fn_result).assessment
      IN /\ Len(results) = 5
         /\ [i \in 1..5 |-> results[i].score] = <<3000, 2000, 1400, 1500, 400>>
         /\ \A i \in 1..5 : results[i].triggered
         /\ a.score = 8300
         /\ a.risk_level = "CRITICAL"
         /\ a.action = "REJECT"
         /\ AlertNeeded(a.risk_level)
         /\ a.requires_manual_review = FALSE

\* C14: the profile lookup is cache-through.  A lookup that finds an entry
\* returns it without querying the users table; a lookup that misses queries
\* the table and, unless redis or the database fails, goes on with a profile
\* (the row's, or the default when there is no row) that it has written to
\* the cache under the user's key.
C14_CacheThrough ==
    [][\A t \in Tasks :
         /\ (pc[t] = "idle" /\ pc'[t] = "rules") =>
               LET u == Get(Get(request'[t]).transaction).user_id IN
               /\ ~IsNone(cache[u])
               /\ "db_fetchrow" \notin effects'[t]
               /\ user_profile'[t] = Some(parse_raw(Get(cache[u])))
         /\ (/\ pc[t] = "fetchrow" /\ pc'[t] # "fetchrow"
             /\ (IsNone(response'[t]) \/ Get(response'[t]).error \notin ExternalErrors)) =>
               /\ pc'[t] = "rules"
               /\ ~IsNone(user_profile'[t])
               /\ cache'[UserOf(t)] = Some(profile_json(Get(user_profile'[t])))]_vars

\* C15: the rule engine returns one result per enabled rule, in registration
\* order, and the i-th result carries the catalog name of the i-th enabled
\* rule, whichever evaluators fail.
C15_OneNamedResultPerRule ==
    (FnDone /\ "rule_results" \in DOMAIN Get(fn_result)) =>
      LET results == Get(fn_result).rule_results IN
      /\ Len(results) = Cardinality(EnabledRules)
      /\ \A i \in 1..Len(results) :
           results[i].rule_name = fraud_rules[RuleKeys[i]].name

\* C16: rule evaluation and model scoring are independent concurrent tasks,
\* so the scorer does not wait for the rules: in a call whose rule evaluation
\* is held up by a query that does not answer, the model is scored all the
\* same.
C16_ModelRunsBesideRules ==
    \A t \in Tasks : (pc[t] = "awaiting_query") ~> ("model" \in effects[t])

\* C17: the (model, scaler, feature names) triple is always whole: nothing
\* loaded, the three artifacts, or the three fallback objects (also when only
\* part of the artifacts could be loaded); so a call scored while the load
\* runs beside it uses a model and a scaler of the same set: the unfitted
\* fallback is met only with the fallback pair, and an ML score comes only
\* from the artifact pair.
ModelTriple == <<ml_model, scaler, feature_names>>

C17_TripleSwappedWhole ==
    /\ ModelTriple \in {<<None, None, <<>> >>,
                        <<ArtifactModel, ArtifactScaler, ArtifactFeatures>>,
                        <<FallbackModel, FallbackScaler, FallbackFeatures>>}
    /\ \A t \in Tasks :
         /\ "model_unfitted" \in effects[t] =>
               (ml_model = FallbackModel /\ scaler = FallbackScaler)
         /\ ("model" \in effects[t] /\ ~IsNone(ml_score[t])) =>
               (ml_model = ArtifactModel /\ scaler = ArtifactScaler)

\* C17 witness: one call was scored before the load (no model yet) and is
\* still open, and another call was scored after a load that failed in part
\* and installed the fallback.
C17_Witness ==
    \E t, o \in Tasks :
      /\ "model_missing" \in effects[t]
      /\ "model_unfitted" \in effects[o]
      /\ ModelTriple = <<FallbackModel, FallbackScaler, FallbackFeatures>>

\* C18: the score every evaluator computes for its result is between 0 and
\* the catalog weight of its rule, every result the engine returns has a
\* score of at most that weight, the catalog weights sum to 1.0, and so the
\* sum of the scores of one evaluation is at most 1.0.
RuleWeight(i) == fraud_rules[RuleKeys[i]].weight

RECURSIVE WeightSum(_)
WeightSum(n) == IF n = 0 THEN 0 ELSE RuleWeight(n) + WeightSum(n - 1)

\* The keyword arguments the five evaluators compute for the inputs in fn_args.
EvaluatorKwargs ==
    LET a == FnArgs IN
    <<check_velocity_rules_kwargs(a.agg.count, a.agg.total, fraud_rules.velocity_check),
      check_amount_anomaly_kwargs(a.transaction, a.user_profile, fraud_rules.amount_anomaly),
      check_geolocation_anomaly_kwargs(a.agg.typical_locations, fraud_rules.geolocation_anomaly),
      check_device_fingerprint_kwargs(a.transaction, fraud_rules.device_fingerprint),
      check_time_pattern_kwargs(a.transaction, fraud_rules.time_pattern)>>

C18_ScoresWithinWeights ==
    /\ WeightSum(Len(RuleKeys)) = One
    /\ ~IsNone(fn_args) =>
         /\ \A i \in 1..Len(RuleKeys) :
              EvaluatorKwargs[i].score >= 0 /\ EvaluatorKwargs[i].score <= RuleWeight(i)
         /\ SumScores(EvaluatorKwargs) <= One
    /\ FnDone =>
         LET results == Get(fn_result).rule_results IN
         /\ \A i \in 1..Len(results) :
              results[i].score >= 0 /\ results[i].score <= RuleWeight(i)
         /\ SumScores(results) <= One

\* C18 witness: the rules were evaluated on the extreme inputs, for which the
\* evaluators compute their largest weighted scores.
C18_Witness ==
    /\ MaxRuleInputs
    /\ FnDone
    /\ [i \in 1..5 |-> EvaluatorKwargs[i].score] = <<2700, 2000, 1400, 750, 0>>
    /\ Len(Get(fn_result).rule_results) = 5

\* C19: the confidence of an assessment is 0.5 when there is no indicator
\* (no triggered rule score above 0 and no ML score, whatever the list of rule
\* results, the empty list included), the indicator when there is one, and
\* mean * (1 - (max - min)) cut to [0, 1] when there are two.
SpecifiedConfidence(results, ml) ==
    LET triggered_sum == SumTriggered(results)
        indicators == (IF triggered_sum > 0 THEN <<triggered_sum>> ELSE <<>>)
                      \o (IF IsNone(ml) THEN <<>> ELSE <<Get(ml)>>)
    IN IF indicators = <<>> THEN 5000
       ELSE IF Len(indicators) = 1 THEN indicators[1]
       ELSE LET hi == Max2(indicators[1], indicators[2])
                lo == Min2(indicators[1], indicators[2])
            IN Clip01(Mul((hi + lo) \div 2, One - (hi - lo)))

C19_ConfidenceFromIndicators ==
    FnProduced =>
      FnAssessment.confidence = SpecifiedConfidence(FnArgs.rule_results, FnArgs.ml_score)

\* C20: with the default catalog no weight exceeds 0.30, no evaluator
\* computes a triggered score above 0.5, and no assessment has action
\* MANUAL_REVIEW or requires_manual_review: every assessment whose score is in
\* [0.3, 0.6) is APPROVE.
C20_NoManualReview ==
    /\ \A i \in 1..Len(RuleKeys) : RuleWeight(i) <= 3000
    /\ ~IsNone(fn_args) =>
         \A i \in 1..Len(RuleKeys) :
            EvaluatorKwargs[i].triggered => EvaluatorKwargs[i].score <= 5000
    /\ FnDone =>
         LET a == Get(fn_result).assessment IN
         /\ a.action # "MANUAL_REVIEW"
         /\ a.requires_manual_review = FALSE
         /\ (3000 <= a.score /\ a.score < 6000) => a.action = "APPROVE"

\* C20 witness: an assessment in the 0.3..0.6 band, made while the velocity
\* and amount rules' conditions were met, is APPROVE.
C20_Witness ==
    /\ FnDone
    /\ FnArgs.ml_score = Some(One)
    /\ EvaluatorKwargs[1].triggered /\ EvaluatorKwargs[2].triggered
    /\ Get(fn_result).assessment.score = 4000
    /\ Get(fn_result).assessment.action = "APPROVE"

\* C21: in every assessment produced, the action is REJECT exactly when the
\* level is CRITICAL, HOLD exactly when it is HIGH, and APPROVE or
\* MANUAL_REVIEW exactly when it is LOW or MEDIUM; so the alert condition of
\* assess_transaction (level HIGH or CRITICAL) is met exactly when the action
\* is HOLD or REJECT.
C21_LevelAndActionCoupled ==
    FnProduced =>
      LET level == FnAssessment.risk_level
          action == FnAssessment.action
      IN /\ action = "REJECT" <=> level = "CRITICAL"
         /\ action = "HOLD" <=> level = "HIGH"
         /\ action \in {"APPROVE", "MANUAL_REVIEW"} <=> level \in {"LOW", "MEDIUM"}
         /\ AlertNeeded(level) <=> action \in {"HOLD", "REJECT"}

\* C21 witness: an assessment fused from rule results and an ML score is
\* CRITICAL and REJECT, so its alert is due.
C21_Witness ==
    /\ FnProduced
    /\ ~IsNone(FnArgs.ml_score)
    /\ FnArgs.rule_results # <<>>
    /\ FnAssessment.risk_level = "CRITICAL"
    /\ FnAssessment.action = "REJECT"
    /\ AlertNeeded(FnAssessment.risk_level)

\* C22: in a sequence of calls made one after the other, as long as every
\* call so far has succeeded, no call is open beside another, a cached entry
\* exists only while the call that wrote it is between its lookup and its
\* delete, and so no lookup finds an entry: every lookup queries the users
\* table.  A call that wrote an entry and returns success has deleted the key,
\* so an entry is left behind only by a call that failed after its lookup.
NoFailureSoFar ==
    /\ Cardinality({t \in Tasks : pc[t] # "idle"}) <= 1
    /\ \A t \in Tasks : Finished(t) => Resp(t).success
    /\ \A u \in Users :
         ~IsNone(cache[u]) =>
            \E t \in Tasks :
               /\ pc[t] \in {"rules", "awaiting_query", "score", "store", "invalidate"}
               /\ UserOf(t) = u
               /\ "cache_setex" \in effects[t]

C22_SuccessfulCallsAlwaysMiss ==
    /\ NoFailureSoFar
    /\ [][LET fails == \E t \in Tasks : /\ pc[t] # "done" /\ pc'[t] = "done"
                                          /\ ~Get(response'[t]).success
              hits == \E t \in Tasks : pc[t] = "idle" /\ pc'[t] = "rules"
          IN (NoFailureSoFar /\ ~fails) => (NoFailureSoFar' /\ ~hits)]_vars
    /\ [](\A t \in Tasks :
            (Finished(t) /\ Resp(t).success /\ "cache_setex" \in effects[t]) =>
               ("cache_delete" \in effects[t] /\ IsNone(cache[UserOf(t)])))

\* C22 witness: the first call cached the profile and then failed at the
\* INSERT; the second call, for the same user, found that entry and did not
\* query the users table.
C22_Witness ==
    /\ issued = 2
    /\ pc[Caller] \in {"rules", "score", "store"}
    /\ TransactionOf(Caller).id = 2
    /\ "cache_get" \in effects[Caller]
    /\ "db_fetchrow" \notin effects[Caller]
    /\ ~IsNone(cache[UserOf(Caller)])
    /\ ~Stored(1)

==========================================================================
